---- MODULE Spec2Model ----
(***************************************************************************)
(* Email analysis pipeline: ingestion, analysis routing, calendar dispatch *)
(* and reply dispatch, modelled over the persistence tables `emails`,      *)
(* `analysis` and `email_replies`.                                         *)
(***************************************************************************)
EXTENDS Integers, Sequences, FiniteSets, TLC

VARIABLES emails, analysis, email_replies, cal_run, reply_run, router_run

vars == <<emails, analysis, email_replies, cal_run, reply_run, router_run>>

\* ------------------------------------------------------------------ bounds
MaxEmails == 2
MaxAnalysis == 2
MaxReplies == 1

\* ------------------------------------------------------- program constants
max_retries == 3
retry_delay == 60
reminder_duration == 30
default_duration == 60

None == "None"

ActionKinds == {"SCHEDULE_MEETING", "SEND_REPLY", "SET_REMINDER", "FORWARD_TO_SLACK", "NO_ACTION"}

CalendarKinds == {"SCHEDULE_MEETING", "SET_REMINDER"}

MessageIds == {"m1", "m2"}

\* --------------------------------------------------------- JSON-like values
\* A value of an action_data mapping: a string, a list of strings or an int.
StrV(s) == [t |-> "str", s |-> s, l |-> <<>>, n |-> 0]

ListV(l) == [t |-> "list", s |-> "", l |-> l, n |-> 0]

IntV(n) == [t |-> "int", s |-> "", l |-> <<>>, n |-> n]

EmptyKV == [k \in {} |-> StrV("")]

\* action_data column: SQL NULL or a JSON object
NoData == [null |-> TRUE, kv |-> EmptyKV]

Data(kv) == [null |-> FALSE, kv |-> kv]

\* Python truthiness of an action_data value (None and {} are falsy)
Truthy(ad) == ~ad.null /\ DOMAIN ad.kv # {}

Has(kv, k) == k \in DOMAIN kv

Put(kv, k, v) == [x \in (DOMAIN kv) \cup {k} |-> IF x = k THEN v ELSE kv[x]]

\* dict.update(other)
Update(kv, other) == [x \in (DOMAIN kv) \cup (DOMAIN other) |-> IF x \in DOMAIN other THEN other[x] ELSE kv[x]]

\* ------------------------------------------------------------ clock values
TODAY == "2026-11-02"

TOMORROW == "2026-11-03"

NOW == "09:30"

\* ------------------------------------------------- phrases the model emits
AddressValid == {"a@x.com", "b@x.com"}

AddressInvalid == {"bob@local"}

\* re.match(r'^[a-zA-Z0-9._%+-]+@[a-zA-Z0-9.-]+\.[a-zA-Z]{2,}$', email)
is_valid_email(email) == email \in AddressValid

\* str.lower() on the phrases used
Lower(s) ==
    CASE s = "10th April 2025" -> "10th april 2025"
      [] s = "next Monday" -> "next monday"
      [] s = "Thursday" -> "thursday"
      [] s = "2:00 PM" -> "2:00 pm"
      [] s = "Not specified" -> "not specified"
      [] OTHER -> s

\* 'th' in s
ContainsTh(s) == s \in {"10th April 2025", "10th april 2025", "thursday", "next month"}

\* 'pm' in s
ContainsPm(s) == s \in {"2:00 pm", "9 o'clock pm"}

\* "o'clock" in s
ContainsOClock(s) == s \in {"9 o'clock at night", "9 o'clock pm", "12 o'clock at night", "7 o'clock"}

\* any(word in s for word in ['night', 'evening', 'pm'])
MentionsNight(s) == s \in {"9 o'clock at night", "12 o'clock at night", "9 o'clock pm"}

\* 'night' in s or 'evening' in s
MentionsNightOrEvening(s) == s \in {"9 o'clock at night", "12 o'clock at night"}

\* int(''.join(filter(str.isdigit, s))) ; -1 stands for ValueError (no digit)
DigitsOf(s) ==
    CASE s \in {"9 o'clock at night", "9 o'clock pm"} -> 9
      [] s = "12 o'clock at night" -> 12
      [] s = "7 o'clock" -> 7
      [] s = "60 (about an hour)" -> 60
      [] s = "60" -> 60
      [] s = "30" -> 30
      [] s = "1 hour 30" -> 130
      [] OTHER -> -1

\* f"{hour:02d}:00"
HourString(h) ==
    CASE h = 7 -> "07:00"
      [] h = 9 -> "09:00"
      [] h = 12 -> "12:00"
      [] h = 19 -> "19:00"
      [] h = 21 -> "21:00"
      [] h = 24 -> "24:00"
      [] OTHER -> "??:00"

\* datetime.strptime(s, "%dth %B %Y").strftime('%Y-%m-%d') ; None stands for ValueError
StrptimeOrdinal(s) == IF s = "10th April 2025" THEN "2025-04-10" ELSE None

\* datetime.strptime(s, '%I:%M %p').strftime('%H:%M') ; None stands for ValueError
Strptime12h(s) == IF s = "2:00 PM" THEN "14:00" ELSE None

IsoDates == {TODAY, TOMORROW, "2025-04-10"}

ClockTimes == {NOW, "14:00", "07:00", "09:00", "12:00", "19:00", "21:00"}

\* datetime.strptime(f"{date_str} {time_str}", "%Y-%m-%d %H:%M") succeeds
StrptimeStartOk(date_str, time_str) == date_str \in IsoDates /\ time_str \in ClockTimes

\* value.strip('[]').split(',') keeping the tokens that contain '@'
ParticipantsOf(s) ==
    CASE s = "[a@x.com, b@x.com]" -> <<"a@x.com", "b@x.com">>
      [] s = "a@x.com, bob@local" -> <<"a@x.com", "bob@local">>
      [] s = "a@x.com" -> <<"a@x.com">>
      [] OTHER -> <<>>

\* ------------------------------------------------- language-model outputs
\* A section body as the model wrote it (possibly padded with blank space)
Padded(text) == [pad |-> TRUE, text |-> text]

Exact(text) == [pad |-> FALSE, text |-> text]

\* str.strip()
Strip(body) == body.text

Line(k, v) == [k |-> k, v |-> v]

MeetingLines == <<Line("date", "today"), Line("time", "now"), Line("title", "Sync"), Line("description", "Weekly sync"), Line("participants", "[a@x.com, b@x.com]"), Line("duration_minutes", "60 (about an hour)")>>

ReminderLines == <<Line("date", "2025-04-10"), Line("time", "14:00"), Line("title", "Pay"), Line("description", "Pay rent"), Line("for_user", "a@x.com")>>

SlackLines == <<Line("channel", "general"), Line("importance", "high")>>

\* A structured output: which of the six sections are present and their bodies;
\* `literal` tells whether the text ACTION_DATA occurs inside a section body.
Output(has, kind, lines, literal, search) ==
    [has |-> has, action_type |-> kind, action_data |-> lines, literal |-> literal,
     search_required |-> search, summary |-> Exact("- summary"),
     insights |-> Padded("Reply soon"), thread_context |-> Exact("First message"),
     search_query |-> "venue address", context_needed |-> "location"]

AllSections == {"SUMMARY", "INSIGHTS", "ACTION_TYPE", "ACTION_DATA", "THREAD_CONTEXT", "SEARCH_REQUIRED"}

\* summarize_text's fallback text "Error generating structured output."
ErrorOutput == Output({}, Exact(""), <<>>, FALSE, FALSE)

LlamaOutputs ==
    { Output(AllSections, Padded("SCHEDULE_MEETING"), MeetingLines, FALSE, FALSE),
      Output(AllSections, Exact("SCHEDULE_MEETING"), MeetingLines, TRUE, FALSE),
      Output(AllSections, Exact("SET_REMINDER"), ReminderLines, FALSE, FALSE),
      Output(AllSections, Exact("FORWARD_TO_SLACK"), SlackLines, FALSE, FALSE),
      Output(AllSections, Exact("NO_ACTION"), <<>>, FALSE, TRUE),
      Output(AllSections, Exact("MAYBE_LATER"), <<>>, FALSE, FALSE),
      Output(AllSections \ {"ACTION_TYPE"}, Exact(""), <<>>, FALSE, FALSE),
      Output({"ACTION_TYPE", "ACTION_DATA"}, Exact("SET_REMINDER"), ReminderLines, FALSE, FALSE) }

\* a parser that fills a missing summary with a placeholder text
parse_llama_response_Placeholder(structured_output) ==
    [summary |-> IF "SUMMARY" \in structured_output.has THEN Strip(structured_output.summary) ELSE "No summary available.",
     action_type |-> IF "ACTION_TYPE" \in structured_output.has THEN Strip(structured_output.action_type) ELSE "NO_ACTION",
     action_data |-> IF "ACTION_DATA" \in structured_output.has THEN structured_output.action_data ELSE <<>>,
     literal |-> structured_output.literal,
     search_required |-> "SEARCH_REQUIRED" \in structured_output.has /\ structured_output.search_required,
     insights |-> IF "INSIGHTS" \in structured_output.has THEN Strip(structured_output.insights) ELSE "",
     thread_context |-> IF "THREAD_CONTEXT" \in structured_output.has THEN Strip(structured_output.thread_context) ELSE "",
     search_query |-> IF "SEARCH_REQUIRED" \in structured_output.has THEN structured_output.search_query ELSE "",
     context_needed |-> IF "SEARCH_REQUIRED" \in structured_output.has THEN structured_output.context_needed ELSE ""]

\* parse_llama_response: a missing section keeps the initial value of its field
parse_llama_response(structured_output) ==
    [summary |-> IF "SUMMARY" \in structured_output.has THEN Strip(structured_output.summary) ELSE "",
     action_type |-> IF "ACTION_TYPE" \in structured_output.has THEN Strip(structured_output.action_type) ELSE "NO_ACTION",
     action_data |-> IF "ACTION_DATA" \in structured_output.has THEN structured_output.action_data ELSE <<>>,
     literal |-> structured_output.literal,
     search_required |-> "SEARCH_REQUIRED" \in structured_output.has /\ structured_output.search_required,
     insights |-> IF "INSIGHTS" \in structured_output.has THEN Strip(structured_output.insights) ELSE "",
     thread_context |-> IF "THREAD_CONTEXT" \in structured_output.has THEN Strip(structured_output.thread_context) ELSE "",
     search_query |-> IF "SEARCH_REQUIRED" \in structured_output.has THEN structured_output.search_query ELSE "",
     context_needed |-> IF "SEARCH_REQUIRED" \in structured_output.has THEN structured_output.context_needed ELSE ""]

\* The combined insights text "Insights: .. Action Data: .. Thread Context: .."
Insights(marker, lines, literal) == [marker |-> marker, lines |-> lines, literal |-> literal]

RECURSIVE KVOfLines(_, _)
\* for line in lines: action_data[key.strip()] = value.strip()
KVOfLines(lines, kv) ==
    IF lines = <<>> THEN kv
    ELSE KVOfLines(Tail(lines), Put(kv, Head(lines).k, StrV(Head(lines).v)))

\* module-level extract_action_data: the text has no '###', so it is one
\* section; it is parsed only when it contains the text ACTION_DATA, and then
\* every "key: value" line after the first one is taken.
extract_action_data(insights) ==
    IF insights.literal
    THEN Data(KVOfLines(<<Line("Action Data", "")>> \o insights.lines \o <<Line("Thread Context", "")>>, EmptyKV))
    ELSE NoData

\* module-level extract_action_data on a structured output whose only
\* occurrence of the text ACTION_DATA is the section header: the lines of that
\* section after the header, up to the next '###'
extract_action_data_section(structured_output) ==
    IF "ACTION_DATA" \in structured_output.has
    THEN Data(KVOfLines(structured_output.action_data, EmptyKV))
    ELSE NoData

\* ------------------------------------------------------------------ tables
EmailRow(message_id) == [message_id |-> message_id, processed |-> FALSE]

AnalysisRow(email_id, action_type, action_data, calendar_status, insights, search_performed, via) ==
    [email_id |-> email_id, action_type |-> action_type, action_data |-> action_data,
     calendar_status |-> calendar_status, calendar_message |-> None, insights |-> insights,
     slack_notification_sent |-> FALSE, search_performed |-> search_performed, via |-> via,
     summary |-> "- summary", slack_channel |-> None, slack_message_id |-> None,
     search_query |-> "", search_results |-> <<>>, search_answer |-> ""]

IdleCal == <<>>

IdleReply == [pc |-> "idle"]

IdleRouter == [pc |-> "idle"]

Init ==
    /\ emails = <<>>
    /\ analysis = <<>>
    /\ email_replies = <<>>
    /\ cal_run = IdleCal
    /\ reply_run = IdleReply
    /\ router_run = IdleRouter

\* ---------------------------------------------------------------- ingestion
\* email_exists: a failed lookup is reported as "does not exist"
email_exists(tbl, message_id, lookup_ok) ==
    lookup_ok /\ \E i \in 1..Len(tbl) : tbl[i].message_id = message_id

RECURSIVE store_emails_loop(_, _, _)
\* the for loop of store_emails_in_supabase; an exception ends the batch
store_emails_loop(tbl, batch, faults) ==
    IF batch = <<>> THEN tbl
    ELSE IF email_exists(tbl, Head(batch), Head(faults) # "lookup_error")
         THEN store_emails_loop(tbl, Tail(batch), Tail(faults))
         ELSE IF Head(faults) = "insert_error"
              THEN tbl
              ELSE store_emails_loop(Append(tbl, EmailRow(Head(batch))), Tail(batch), Tail(faults))

IngestFaults == {"none", "lookup_error", "insert_error"}

MaxBatch == 2

Batches == UNION {[1..n -> MessageIds] : n \in 1..MaxBatch}

store_emails_in_supabase ==
    \E batch \in Batches : \E faults \in [1..Len(batch) -> IngestFaults] :
        /\ Len(emails) + Len(batch) <= MaxEmails
        /\ emails' = store_emails_loop(emails, batch, faults)
        /\ UNCHANGED <<analysis, email_replies, cal_run, reply_run, router_run>>

\* ---------------------------------------------------------- analysis router
\* first row with the given message id, 0 when there is none
RowOfMessage(tbl, message_id) ==
    IF \E i \in 1..Len(tbl) : tbl[i].message_id = message_id
    THEN CHOOSE i \in 1..Len(tbl) : tbl[i].message_id = message_id /\ \A j \in 1..(i - 1) : tbl[j].message_id # message_id
    ELSE 0

\* SlackNotificationService.send_email_notification(self, email_data, importance)
send_email_notification_params == {"email_data", "importance"}

\* the keyword arguments analyze_email passes; an unknown keyword is a TypeError
SlackCallAccepted(keywords, slack_ok) == keywords \subseteq send_email_notification_params /\ slack_ok

\* module-level store_analysis_in_supabase: the record it inserts
store_analysis_record(analysis_data) ==
    [AnalysisRow(analysis_data.email_id, analysis_data.action_type,
                extract_action_data(analysis_data.insights), None,
                analysis_data.insights, analysis_data.search_performed, "analyze_email")
        EXCEPT !.slack_notification_sent = analysis_data.slack_notification_sent,
               !.summary = analysis_data.summary,
               !.slack_channel = analysis_data.slack_channel,
               !.slack_message_id = analysis_data.slack_message_id,
               !.search_query = analysis_data.search_query,
               !.search_results = analysis_data.search_results,
               !.search_answer = analysis_data.search_answer]

MarkProcessed(tbl, email_id) == [tbl EXCEPT ![email_id].processed = TRUE]

\* summarize_text: the structured text, the fallback text after a request
\* error, or an exception that is not a request error
LlamaResponses ==
    {[outcome |-> "text", out |-> o] : o \in LlamaOutputs}
        \cup {[outcome |-> "request_error", out |-> ErrorOutput], [outcome |-> "raised", out |-> ErrorOutput]}

DbFaults == {"none", "insert_rejected", "update_rejected"}

\* the id chat_postMessage returns (response['ts'])
SlackTs == "1700000000.000100"

\* content.get('importance', 'medium'): content has no 'importance' key
ImportancePassed == "medium"

\* content.get('importance'), stored as slack_channel
ChannelStored == None

SearchOutcomes == {"results", "empty", "exception"}

\* a search that returns results whatever the collaborator did
perform_web_search_Always(query, outcome) == <<query>>

\* perform_web_search: the structured results, [] on an exception
perform_web_search(query, outcome) == IF outcome = "results" THEN <<query>> ELSE <<>>

AnswerOutcomes == {"summary", "no_summary", "raised"}

\* analyze_search_results: the SUMMARY section of a second model call
analyze_search_results(results, context_needed, outcome) ==
    CASE outcome = "summary" -> "synthesized answer"
      [] outcome = "no_summary" -> "Unable to generate a synthesized answer from search results."
      [] OTHER -> "Error analyzing search results."

\* an analysis_data that records the notification as sent whenever it was attempted
AnalysisData_AlwaysSent(email_id, analysis_result, sent, search_results, search_answer) ==
    [email_id |-> email_id, action_type |-> analysis_result.action_type,
     summary |-> analysis_result.summary,
     insights |-> Insights(TRUE, analysis_result.action_data, analysis_result.literal),
     search_performed |-> search_results # <<>>,
     search_query |-> IF search_results # <<>> THEN analysis_result.search_query ELSE "",
     search_results |-> search_results,
     search_answer |-> IF search_results # <<>> THEN search_answer ELSE "",
     slack_notification_sent |-> analysis_result.action_type = "FORWARD_TO_SLACK",
     slack_channel |-> IF sent THEN ChannelStored ELSE None,
     slack_message_id |-> IF sent THEN SlackTs ELSE None]

\* the analysis_data dictionary analyze_email builds (lines 185-255)
AnalysisData(email_id, analysis_result, sent, search_results, search_answer) ==
    [email_id |-> email_id, action_type |-> analysis_result.action_type,
     summary |-> analysis_result.summary,
     insights |-> Insights(TRUE, analysis_result.action_data, analysis_result.literal),
     search_performed |-> search_results # <<>>,
     search_query |-> IF search_results # <<>> THEN analysis_result.search_query ELSE "",
     search_results |-> search_results,
     search_answer |-> IF search_results # <<>> THEN search_answer ELSE "",
     slack_notification_sent |-> sent,
     slack_channel |-> IF sent THEN ChannelStored ELSE None,
     slack_message_id |-> IF sent THEN SlackTs ELSE None]

analyze_email ==
    \E message_id \in MessageIds, resp \in LlamaResponses,
       slack_ok \in BOOLEAN, search \in SearchOutcomes, answer \in AnswerOutcomes, db \in DbFaults :
        LET row == RowOfMessage(emails, message_id)
            analysis_result == parse_llama_response(resp.out)
            forward == analysis_result.action_type = "FORWARD_TO_SLACK"
            sent == forward /\ SlackCallAccepted({"email_data", "importance", "mentions"}, slack_ok)
            search_results == IF analysis_result.search_required
                              THEN perform_web_search(analysis_result.search_query, search)
                              ELSE <<>>
            search_answer == analyze_search_results(search_results, analysis_result.context_needed, answer)
            analysis_data == AnalysisData(row, analysis_result, sent, search_results, search_answer)
            reached == row # 0 /\ resp.outcome # "raised"
            stored == reached /\ db # "insert_rejected"
        IN  /\ Len(analysis) < MaxAnalysis
            /\ ~(reached /\ forward) => slack_ok
            /\ ~(reached /\ analysis_result.search_required) => search = "results"
            /\ ~(reached /\ search_results # <<>>) => answer = "summary"
            /\ ~reached => db = "none"
            /\ IF ~stored
               THEN UNCHANGED <<emails, analysis>>
               ELSE /\ analysis' = Append(analysis, store_analysis_record(analysis_data))
                    /\ emails' = IF db = "update_rejected" THEN emails ELSE MarkProcessed(emails, row)
            /\ router_run' =
                  [pc |-> "done", message_id |-> message_id, email_id |-> row,
                   outcome |-> resp.outcome, structured_output |-> resp.out, sections |-> resp.out.has,
                   action_type |-> analysis_result.action_type,
                   slack_ok |-> slack_ok, search |-> search, answer |-> answer, db |-> db,
                   slack_attempted |-> reached /\ forward,
                   slack_invoked |-> reached /\ sent,
                   slack_importance |-> IF reached /\ sent THEN ImportancePassed ELSE None,
                   search_called |-> reached /\ analysis_result.search_required,
                   search_query |-> IF reached /\ analysis_result.search_required
                                    THEN analysis_result.search_query ELSE None,
                   second_model_call |-> reached /\ search_results # <<>>,
                   analysis_id |-> IF stored THEN Len(analysis) + 1 ELSE 0]
            /\ UNCHANGED <<email_replies, cal_run, reply_run>>

\* ------------------------------------------------------------ analyze_emails
\* the rows the query .eq("processed", False) returns, in table order
RECURSIVE UnprocessedFrom(_, _)
UnprocessedFrom(tbl, i) ==
    IF i > Len(tbl) THEN <<>>
    ELSE (IF ~tbl[i].processed THEN <<i>> ELSE <<>>) \o UnprocessedFrom(tbl, i + 1)

\* the responses a batch item can get: no action and no search, a request
\* error answered with the fallback text, or an exception
BatchResponses ==
    {r \in LlamaResponses :
        parse_llama_response(r.out).action_type = "NO_ACTION" /\ ~parse_llama_response(r.out).search_required}

BatchInputs == {in \in [resp : BatchResponses, db : DbFaults] : in.resp.outcome = "raised" => in.db = "none"}

\* one call analyze_email(message_id) made from the loop: the row it acts on
\* is the first row with that message id
AnalyzeItem(st, item, in) ==
    LET message_id == st.emails[item].message_id
        row == RowOfMessage(st.emails, message_id)
        analysis_data == AnalysisData(row, parse_llama_response(in.resp.out), FALSE, <<>>, "")
        stored == in.resp.outcome # "raised" /\ in.db # "insert_rejected"
        call == [item |-> item, email_id |-> row, was_processed |-> st.emails[row].processed,
                 outcome |-> in.resp.outcome, db |-> in.db,
                 analysis_id |-> IF stored THEN Len(st.analysis) + 1 ELSE 0]
    IN  [emails |-> IF stored /\ in.db # "update_rejected" THEN MarkProcessed(st.emails, row) ELSE st.emails,
         analysis |-> IF stored THEN Append(st.analysis, store_analysis_record(analysis_data)) ELSE st.analysis,
         calls |-> Append(st.calls, call)]

RECURSIVE analyze_emails_loop(_, _, _, _)
\* for email in unprocessed_emails: lines 290-308
analyze_emails_loop(st, items, inputs, k) ==
    IF k > Len(items) THEN st
    ELSE analyze_emails_loop(AnalyzeItem(st, items[k], inputs[k]), items, inputs, k + 1)

analyze_emails ==
    \E fetch_ok \in BOOLEAN :
        LET items == IF fetch_ok THEN UnprocessedFrom(emails, 1) ELSE <<>>
        IN  \E inputs \in [1..Len(items) -> BatchInputs] :
                LET st == analyze_emails_loop([emails |-> emails, analysis |-> analysis, calls |-> <<>>],
                                              items, inputs, 1)
                IN  /\ emails # <<>>
                    /\ Len(analysis) + Len(items) <= MaxAnalysis
                    /\ emails' = st.emails
                    /\ analysis' = st.analysis
                    /\ router_run' = [pc |-> "batch", items |-> items, calls |-> st.calls]
                    /\ UNCHANGED <<email_replies, cal_run, reply_run>>

\* ------------------------------------------- SupabaseService (class) insert
\* int(''.join(filter(str.isdigit, value))) raises ValueError on no digit
TransformRaises(k, v) ==
    k = "time" /\ Lower(v) # "now" /\ ContainsOClock(Lower(v)) /\ DigitsOf(v) = -1

\* the per-key handling of SupabaseService.store_analysis_in_supabase
TransformValue(k, v) ==
    CASE k = "participants" -> ListV(ParticipantsOf(v))
      [] k = "duration_minutes" -> StrV(IF DigitsOf(v) = -1 THEN "60" ELSE ToString(DigitsOf(v)))
      [] k = "date" -> StrV(IF Lower(v) = "today" THEN TODAY ELSE IF Lower(v) = "tomorrow" THEN TOMORROW ELSE v)
      [] k = "time" -> StrV(IF Lower(v) = "now" THEN NOW
                            ELSE IF ContainsOClock(Lower(v))
                                 THEN HourString(DigitsOf(v) + (IF MentionsNightOrEvening(Lower(v)) THEN 12 ELSE 0))
                                 ELSE v)
      [] OTHER -> StrV(v)

RECURSIVE StoreLines(_, _)
StoreLines(lines, kv) ==
    IF lines = <<>> THEN kv
    ELSE StoreLines(Tail(lines), Put(kv, Head(lines).k, TransformValue(Head(lines).k, Head(lines).v)))

StoreRaises(analysis_data) ==
    /\ analysis_data.action_type \in CalendarKinds
    /\ analysis_data.insights.marker
    /\ \E i \in 1..Len(analysis_data.insights.lines) :
          TransformRaises(analysis_data.insights.lines[i].k, analysis_data.insights.lines[i].v)

\* the record SupabaseService.store_analysis_in_supabase inserts
service_analysis_record(analysis_data) ==
    LET action_data == IF analysis_data.action_type \in CalendarKinds /\ analysis_data.insights.marker
                       THEN StoreLines(analysis_data.insights.lines, EmptyKV)
                       ELSE EmptyKV
    IN  AnalysisRow(analysis_data.email_id, analysis_data.action_type,
                    IF DOMAIN action_data # {} THEN Data(action_data) ELSE NoData,
                    IF analysis_data.action_type \in CalendarKinds THEN "PENDING" ELSE None,
                    analysis_data.insights, FALSE, "service")

NoTimeLines == <<Line("date", "10th April 2025"), Line("title", "Call"), Line("description", "Call back"), Line("for_user", "bob@local")>>

BadDateLines == <<Line("date", "next Monday"), Line("time", "2:00 PM"), Line("title", "Review"), Line("description", "Review"), Line("participants", "a@x.com, bob@local")>>

GuestReminderLines == <<Line("date", "tomorrow"), Line("time", "7 o'clock"), Line("title", "Dentist"), Line("description", "Dentist visit"), Line("participants", "[a@x.com, b@x.com]"), Line("duration_minutes", "1 hour 30"), Line("for_user", "bob@local")>>

ServiceInputs ==
    { [action_type |-> "SCHEDULE_MEETING", insights |-> Insights(TRUE, MeetingLines, FALSE)],
      [action_type |-> "SCHEDULE_MEETING", insights |-> Insights(FALSE, <<>>, FALSE)],
      [action_type |-> "SCHEDULE_MEETING", insights |-> Insights(TRUE, BadDateLines, FALSE)],
      [action_type |-> "SET_REMINDER", insights |-> Insights(TRUE, ReminderLines, FALSE)],
      [action_type |-> "SET_REMINDER", insights |-> Insights(TRUE, NoTimeLines, FALSE)],
      [action_type |-> "SET_REMINDER", insights |-> Insights(TRUE, GuestReminderLines, FALSE)],
      [action_type |-> "NO_ACTION", insights |-> Insights(TRUE, <<>>, FALSE)] }

\* the store marking the email processed before looking at the insert response
SupabaseService_store_analysis_in_supabase_MarkFirst ==
    \E input \in ServiceInputs, email_id \in 1..Len(emails), db \in DbFaults :
        LET analysis_data == [email_id |-> email_id, action_type |-> input.action_type, insights |-> input.insights]
        IN  /\ Len(analysis) < MaxAnalysis
            /\ IF StoreRaises(analysis_data)
               THEN UNCHANGED <<emails, analysis>>
               ELSE /\ analysis' = IF db = "insert_rejected" THEN analysis
                                   ELSE Append(analysis, service_analysis_record(analysis_data))
                    /\ emails' = IF db = "update_rejected" THEN emails ELSE MarkProcessed(emails, email_id)
            /\ UNCHANGED <<email_replies, cal_run, reply_run, router_run>>

SupabaseService_store_analysis_in_supabase ==
    \E input \in ServiceInputs, email_id \in 1..Len(emails), db \in DbFaults :
        LET analysis_data == [email_id |-> email_id, action_type |-> input.action_type, insights |-> input.insights]
        IN  /\ Len(analysis) < MaxAnalysis
            /\ IF StoreRaises(analysis_data) \/ db = "insert_rejected"
               THEN UNCHANGED <<emails, analysis>>
               ELSE /\ analysis' = Append(analysis, service_analysis_record(analysis_data))
                    /\ emails' = IF db = "update_rejected" THEN emails ELSE MarkProcessed(emails, email_id)
            /\ UNCHANGED <<email_replies, cal_run, reply_run, router_run>>

\* ------------------------------------------------------ calendar dispatcher
\* int(value) for a duration given as digits or as a number; -1 is ValueError
IntOf(v) ==
    CASE v.t = "int" -> v.n
      [] v.t = "str" /\ v.s = "30" -> 30
      [] v.t = "str" /\ v.s = "60" -> 60
      [] v.t = "str" /\ v.s = "130" -> 130
      [] OTHER -> -1

FilterValid(l) == SelectSeq(l, is_valid_email)

\* lines 32-43: validate and clean participants
CleanParticipants(kv) ==
    IF Has(kv, "participants")
    THEN IF kv["participants"].t = "list"
         THEN Put(kv, "participants", ListV(FilterValid(kv["participants"].l)))
         ELSE kv
    ELSE IF Has(kv, "for_user")
         THEN Put(kv, "participants",
                  ListV(IF is_valid_email(kv["for_user"].s) THEN <<kv["for_user"].s>> ELSE <<>>))
         ELSE kv

\* lines 45-47: a missing 'time' is a KeyError
HandlerTime(kv) ==
    IF Lower(kv["time"].s) = "none" \/ Lower(kv["time"].s) = "not specified"
    THEN Put(kv, "time", StrV(NOW))
    ELSE kv

\* lines 49-55: ordinal dates; a failed parse falls back to the current date
HandlerDate(kv) ==
    IF ContainsTh(kv["date"].s)
    THEN Put(kv, "date", StrV(IF StrptimeOrdinal(kv["date"].s) # None THEN StrptimeOrdinal(kv["date"].s) ELSE TODAY))
    ELSE kv

\* a reminder step that keeps the participants and duration it was given
HandlerReminder_KeepGiven(action_type, kv) ==
    IF action_type = "SET_REMINDER"
    THEN LET d == IF Has(kv, "duration_minutes") THEN kv ELSE Put(kv, "duration_minutes", IntV(reminder_duration))
         IN  IF Has(d, "for_user") /\ ~Has(d, "participants") THEN Put(d, "participants", ListV(<<d["for_user"].s>>)) ELSE d
    ELSE kv

\* lines 60-65: reminders become 30 minute events for for_user
HandlerReminder(action_type, kv) ==
    IF action_type = "SET_REMINDER"
    THEN LET d == Put(kv, "duration_minutes", IntV(reminder_duration))
         IN  IF Has(d, "for_user") THEN Put(d, "participants", ListV(<<d["for_user"].s>>)) ELSE d
    ELSE kv

PrepareRaises(kv) == ~Has(CleanParticipants(kv), "time") \/ ~Has(kv, "date")

PrepareEvent(action_type, kv) == HandlerReminder(action_type, HandlerDate(HandlerTime(CleanParticipants(kv))))

\* CalendarService.schedule_event, lines 75-83
ScheduleDate(d) ==
    IF Lower(d) = "today" THEN TODAY
    ELSE IF Lower(d) = "tomorrow" THEN TOMORROW
    ELSE IF ContainsTh(Lower(d)) THEN StrptimeOrdinal(d)
    ELSE d

\* CalendarService.schedule_event, lines 85-98
ScheduleTime(t) ==
    IF Lower(t) \in {"none", "now", "not specified"} THEN NOW
    ELSE IF ContainsPm(Lower(t)) THEN Strptime12h(t)
    ELSE IF ContainsOClock(Lower(t))
         THEN IF DigitsOf(t) = -1 THEN None
              ELSE HourString(DigitsOf(t) + (IF MentionsNight(Lower(t)) /\ DigitsOf(t) # 12 THEN 12 ELSE 0))
         ELSE t

Attendees(kv) ==
    IF Has(kv, "participants") /\ (kv["participants"].l # <<>> \/ kv["participants"].s # "")
    THEN IF kv["participants"].t = "list" THEN kv["participants"].l ELSE <<kv["participants"].s>>
    ELSE <<>>

\* everything schedule_event evaluates before calling the calendar collaborator
ScheduleRaises(kv) ==
    \/ ~Has(kv, "date") \/ ~Has(kv, "time")
    \/ ScheduleDate(kv["date"].s) = None
    \/ ScheduleTime(kv["time"].s) = None
    \/ ~StrptimeStartOk(ScheduleDate(kv["date"].s), ScheduleTime(kv["time"].s))
    \/ (Has(kv, "duration_minutes") /\ IntOf(kv["duration_minutes"]) = -1)
    \/ ~Has(kv, "title")

EventOf(kv) ==
    [summary |-> kv["title"].s, date |-> ScheduleDate(kv["date"].s), time |-> ScheduleTime(kv["time"].s),
     duration |-> IF Has(kv, "duration_minutes") THEN IntOf(kv["duration_minutes"]) ELSE default_duration,
     attendees |-> Attendees(kv)]

NoEvent == [summary |-> None, date |-> None, time |-> None, duration |-> 0, attendees |-> <<>>]

\* schedule_event returns (True, "Event created ...") or (False, "Failed to schedule event ...")
schedule_event(kv, insert_ok) ==
    IF ScheduleRaises(kv)
    THEN [success |-> FALSE, message |-> "Failed to schedule event", invoked |-> FALSE, event |-> NoEvent]
    ELSE [success |-> insert_ok,
          message |-> IF insert_ok THEN "Event created successfully" ELSE "Failed to schedule event",
          invoked |-> TRUE, event |-> EventOf(kv)]

\* a status that ignores the outcome of event creation
StatusOf_Always(success) == "COMPLETED"

StatusOf(success) == IF success THEN "COMPLETED" ELSE "FAILED"

\* one iteration of the for loop of process_calendar_actions
HandleAction(id, action, insert_ok, update_ok) ==
    IF ~Truthy(action.action_data)
    THEN [id |-> id, was |-> action.calendar_status, skipped |-> TRUE, prep_raised |-> FALSE, invoked |-> FALSE, created |-> FALSE, success |-> FALSE,
          status |-> None, message |-> None, stored |-> FALSE, event |-> NoEvent]
    ELSE IF PrepareRaises(action.action_data.kv)
    THEN [id |-> id, was |-> action.calendar_status, skipped |-> FALSE, prep_raised |-> TRUE, invoked |-> FALSE, created |-> FALSE, success |-> FALSE,
          status |-> "FAILED", message |-> "Error processing calendar action", stored |-> update_ok,
          event |-> NoEvent]
    ELSE LET r == schedule_event(PrepareEvent(action.action_type, action.action_data.kv), insert_ok)
         IN  [id |-> id, was |-> action.calendar_status, skipped |-> FALSE, prep_raised |-> FALSE, invoked |-> r.invoked,
              created |-> r.invoked /\ insert_ok, success |-> r.success,
              status |-> StatusOf(r.success), message |-> r.message, stored |-> update_ok, event |-> r.event]

\* a fetch that does not filter on calendar_status
IsPendingCalendar_AnyStatus(row) == row.action_type \in CalendarKinds

\* SupabaseService.fetch_calendar_actions
IsPendingCalendar(row) == row.action_type \in CalendarKinds /\ row.calendar_status = "PENDING"

RECURSIVE IdsFrom(_, _)
IdsFrom(tbl, i) ==
    IF i > Len(tbl) THEN <<>>
    ELSE (IF IsPendingCalendar(tbl[i]) THEN <<i>> ELSE <<>>) \o IdsFrom(tbl, i + 1)

fetch_calendar_actions(tbl, fetch_ok) == IF fetch_ok THEN IdsFrom(tbl, 1) ELSE <<>>

\* the ids of the rows a fetch returns
FetchedIds(tbl, fetch_ok) ==
    {fetch_calendar_actions(tbl, fetch_ok)[k] : k \in 1..Len(fetch_calendar_actions(tbl, fetch_ok))}

\* SupabaseService.update_calendar_action_status
update_calendar_action_status(row, entry) ==
    IF entry.stored /\ ~entry.skipped
    THEN [row EXCEPT !.calendar_status = entry.status, !.calendar_message = entry.message]
    ELSE row

process_calendar_actions ==
    \E fetch_ok \in BOOLEAN :
      \E insert_ok \in [FetchedIds(analysis, fetch_ok) -> BOOLEAN], update_ok \in [FetchedIds(analysis, fetch_ok) -> BOOLEAN] :
        LET actions == fetch_calendar_actions(analysis, fetch_ok)
            entry(i) == HandleAction(i, analysis[i], insert_ok[i], update_ok[i])
            fetched(i) == i \in FetchedIds(analysis, fetch_ok)
        IN  /\ analysis # <<>>
            /\ analysis' = [i \in 1..Len(analysis) |->
                               IF fetched(i) THEN update_calendar_action_status(analysis[i], entry(i)) ELSE analysis[i]]
            /\ cal_run' = [k \in 1..Len(actions) |-> entry(actions[k])]
            /\ UNCHANGED <<emails, email_replies, reply_run, router_run>>

\* ------------------------------------------- update_calendar_actions script
\* the per-key handling of SupabaseService.extract_action_data
ExtractValue(k, v) ==
    CASE k = "participants" -> ListV(ParticipantsOf(v))
      [] k = "duration_minutes" -> StrV(IF DigitsOf(v) = -1 THEN "60" ELSE ToString(DigitsOf(v)))
      [] OTHER -> StrV(v)

RECURSIVE ExtractLines(_, _)
ExtractLines(lines, kv) ==
    IF lines = <<>> THEN kv
    ELSE ExtractLines(Tail(lines), Put(kv, Head(lines).k, ExtractValue(Head(lines).k, Head(lines).v)))

required_fields == {"date", "time", "title", "description"}

\* an extraction that does not check the required fields
SupabaseService_extract_action_data_Unchecked(text) ==
    IF ~text.marker THEN NoData
    ELSE Data(ExtractLines(text.lines, EmptyKV))

\* SupabaseService.extract_action_data: None without the 'Action Data:' marker
\* or when a required field is missing
SupabaseService_extract_action_data(text) ==
    IF ~text.marker THEN NoData
    ELSE LET action_data == ExtractLines(text.lines, EmptyKV)
         IN  IF required_fields \subseteq DOMAIN action_data THEN Data(action_data) ELSE NoData

\* update_existing_calendar_actions: re-parse the insights of every PENDING record
update_existing_calendar_actions ==
    \E fetch_ok \in BOOLEAN :
      \E update_ok \in [FetchedIds(analysis, fetch_ok) -> BOOLEAN] :
        LET fetched(i) == i \in FetchedIds(analysis, fetch_ok)
            action_data(i) == SupabaseService_extract_action_data(analysis[i].insights)
        IN  /\ analysis # <<>>
            /\ analysis' = [i \in 1..Len(analysis) |->
                               IF fetched(i) /\ Truthy(action_data(i)) /\ update_ok[i]
                               THEN [analysis[i] EXCEPT !.action_data = action_data(i)]
                               ELSE analysis[i]]
            /\ UNCHANGED <<emails, email_replies, cal_run, reply_run, router_run>>

\* --------------------------------------------------------- reply dispatcher
\* a lookup that ignores a failed query
get_details_Unchecked(tbl, id, fetch_ok) == IF id \in 1..Len(tbl) THEN id ELSE IF Len(tbl) > 0 THEN 1 ELSE 0

\* get_email_details / get_analysis_details: None for an unknown id or a failed query
get_details(tbl, id, fetch_ok) == IF fetch_ok /\ id \in 1..Len(tbl) THEN id ELSE 0

\* a context builder that tolerates a missing action_data
prepare_reply_context_Tolerant(analysis_data) == FALSE

\* prepare_reply_context: dict.update(None) is a TypeError
prepare_reply_context_raises(analysis_data) ==
    analysis_data.action_type \in CalendarKinds /\ analysis_data.action_data.null

\* create_reply_message returns {'raw': raw}
create_reply_message == {"raw"}

ReplyRow(email_id, analysis_id) ==
    [email_id |-> email_id, analysis_id |-> analysis_id, status |-> "PENDING", retry_count |-> 0]

\* update_reply_status that drops the FAILED write
update_reply_status_SentOnly(tbl, reply_id, status, update_ok) ==
    IF update_ok /\ status = "SENT" THEN [tbl EXCEPT ![reply_id].status = status] ELSE tbl

\* update_reply_status; a rejected write is logged and dropped
update_reply_status(tbl, reply_id, status, update_ok) ==
    IF update_ok THEN [tbl EXCEPT ![reply_id].status = status] ELSE tbl

\* the n-th call of the mail collaborator's send succeeds
SendAccepted(script, n) == n \in 1..Len(script) /\ script[n]

\* send_reply that reports failure after a send the collaborator accepted
send_reply_ReportsFailure(message, require_confirmation, user_confirms, send_ok) ==
    IF require_confirmation /\ ~("to" \in message /\ "subject" \in message)
    THEN [ret |-> FALSE, raised |-> FALSE, events |-> <<>>]
    ELSE IF require_confirmation /\ ~user_confirms
    THEN [ret |-> FALSE, raised |-> FALSE, events |-> <<"prompt">>]
    ELSE [ret |-> FALSE, raised |-> FALSE,
          events |-> (IF require_confirmation THEN <<"prompt">> ELSE <<>>) \o <<"send">>]

\* send_reply: returns [ret, raised, events]; every exception is caught inside
send_reply(message, require_confirmation, user_confirms, send_ok) ==
    IF require_confirmation /\ ~("to" \in message /\ "subject" \in message)
    THEN [ret |-> FALSE, raised |-> FALSE, events |-> <<>>]
    ELSE IF require_confirmation /\ ~user_confirms
    THEN [ret |-> FALSE, raised |-> FALSE, events |-> <<"prompt">>]
    ELSE [ret |-> send_ok, raised |-> FALSE,
          events |-> (IF require_confirmation THEN <<"prompt">> ELSE <<>>) \o <<"send">>]

CountOf(log, e) == Cardinality({i \in 1..Len(log) : log[i] = e})

RECURSIVE SendLoop_OneShort(_, _, _)
\* the loop with range(self.max_retries - 1)
SendLoop_OneShort(attempt, log, sc) ==
    IF attempt >= max_retries - 1
    THEN [sent |-> FALSE, log |-> log]
    ELSE LET r == send_reply(create_reply_message, sc.require_confirmation, sc.user_confirms,
                             SendAccepted(sc.script, CountOf(log, "send") + 1))
         IN  IF r.ret
             THEN [sent |-> TRUE, log |-> log \o r.events]
             ELSE SendLoop_OneShort(attempt + 1, log \o r.events, sc)

RECURSIVE SendLoop(_, _, _)
\* for attempt in range(self.max_retries): lines 208-218
SendLoop(attempt, log, sc) ==
    IF attempt >= max_retries
    THEN [sent |-> FALSE, log |-> log]
    ELSE LET r == send_reply(create_reply_message, sc.require_confirmation, sc.user_confirms,
                             SendAccepted(sc.script, CountOf(log, "send") + 1))
         IN  IF r.raised
             THEN SendLoop(attempt + 1,
                           log \o r.events \o (IF attempt < max_retries - 1 THEN <<"sleep">> ELSE <<>>), sc)
             ELSE IF r.ret
                  THEN [sent |-> TRUE, log |-> log \o r.events]
                  ELSE SendLoop(attempt + 1, log \o r.events, sc)

Scripts == {<<TRUE, TRUE, TRUE>>, <<FALSE, TRUE, TRUE>>, <<FALSE, FALSE, TRUE>>, <<FALSE, FALSE, FALSE>>}

ReplyFaults == {"none", "fetch_email", "fetch_analysis", "store", "update"}

ReplyScenarios ==
    {sc \in [require_confirmation : BOOLEAN, user_confirms : BOOLEAN, script : Scripts, fault : ReplyFaults] :
        ~sc.require_confirmation => sc.user_confirms}

Done(email_id, analysis_id, sc, result, reply_id, log) ==
    [pc |-> "done", email_id |-> email_id, analysis_id |-> analysis_id, scenario |-> sc,
     result |-> result, reply_id |-> reply_id, log |-> log,
     waited |-> retry_delay * CountOf(log, "sleep")]

process_reply ==
    \E email_id \in 0..Len(emails), analysis_id \in 0..Len(analysis), sc \in ReplyScenarios :
        LET email_data == get_details(emails, email_id, sc.fault # "fetch_email")
            analysis_data == get_details(analysis, analysis_id, sc.fault # "fetch_analysis")
            reply_id == Len(email_replies) + 1
            loop == SendLoop(0, <<>>, sc)
            stored == Append(email_replies, ReplyRow(email_id, analysis_id))
        IN  /\ Len(email_replies) < MaxReplies
            /\ IF email_data = 0 \/ analysis_data = 0
               THEN /\ reply_run' = Done(email_id, analysis_id, sc, "False", 0, <<>>)
                    /\ UNCHANGED email_replies
               ELSE IF prepare_reply_context_raises(analysis[analysis_data])
               THEN /\ reply_run' = Done(email_id, analysis_id, sc, "UnboundLocalError", 0, <<>>)
                    /\ UNCHANGED email_replies
               ELSE IF sc.fault = "store"
               THEN /\ reply_run' = Done(email_id, analysis_id, sc, "False", 0, <<>>)
                    /\ UNCHANGED email_replies
               ELSE /\ reply_run' = Done(email_id, analysis_id, sc, IF loop.sent THEN "True" ELSE "False", reply_id, loop.log)
                    /\ email_replies' = update_reply_status(stored, reply_id,
                                            IF loop.sent THEN "SENT" ELSE "FAILED", sc.fault # "update")
            /\ UNCHANGED <<emails, analysis, cal_run, router_run>>

Next ==
    \/ store_emails_in_supabase
    \/ analyze_email
    \/ analyze_emails
    \/ SupabaseService_store_analysis_in_supabase
    \/ process_calendar_actions
    \/ update_existing_calendar_actions
    \/ process_reply

Spec == Init /\ [][Next]_vars

\* ------------------------------------------------------------------ router
\* ingestion and analysis, with the calendar dispatcher running in between
NextRouter ==
    \/ store_emails_in_supabase
    \/ analyze_email
    \/ process_calendar_actions

SpecRouter == Init /\ [][NextRouter]_vars

\* ---------------------------------------------------------------- calendar
\* one ingested email; records come from SupabaseService.store_analysis_in_supabase
InitCalendar ==
    /\ emails = store_emails_loop(<<>>, <<"m1">>, <<"none">>)
    /\ analysis = <<>>
    /\ email_replies = <<>>
    /\ cal_run = IdleCal
    /\ reply_run = IdleReply
    /\ router_run = IdleRouter

NextCalendar ==
    \/ SupabaseService_store_analysis_in_supabase
    \/ process_calendar_actions
    \/ update_existing_calendar_actions

SpecCalendar == InitCalendar /\ [][NextCalendar]_vars

\* ----------------------------------------------------------------- analyze
\* analyze_email alone, over one ingested email
NextAnalyze == analyze_email

SpecAnalyze == InitCalendar /\ [][NextAnalyze]_vars

\* ------------------------------------------------------------------- batch
\* ingestion batches followed by analyze_emails runs
NextBatch ==
    \/ store_emails_in_supabase
    \/ analyze_emails

SpecBatch == Init /\ [][NextBatch]_vars

\* ------------------------------------------------------------------- store
\* two ingested emails and both writers of AnalysisRecords
InitStore ==
    /\ emails = store_emails_loop(<<>>, <<"m1", "m2">>, <<"none", "none">>)
    /\ analysis = <<>>
    /\ email_replies = <<>>
    /\ cal_run = IdleCal
    /\ reply_run = IdleReply
    /\ router_run = IdleRouter

NextStore ==
    \/ analyze_emails
    \/ SupabaseService_store_analysis_in_supabase

SpecStore == InitStore /\ [][NextStore]_vars

\* ------------------------------------------------------------------- clock
\* an action-data block whose time is an o'clock phrase
ClockLines(t) == <<Line("date", "today"), Line("time", t), Line("title", "Dinner"), Line("description", "Dinner")>>

OClockPhrases == {"7 o'clock", "9 o'clock at night", "9 o'clock pm", "12 o'clock at night"}

\* the records SupabaseService.store_analysis_in_supabase inserts for them
ClockRows ==
    {service_analysis_record([email_id |-> 1, action_type |-> "SCHEDULE_MEETING",
                              insights |-> Insights(TRUE, ClockLines(t), FALSE)]) : t \in OClockPhrases}

\* one email analysed twice; the update script and the dispatcher run on its records
InitClock ==
    /\ emails = MarkProcessed(store_emails_loop(<<>>, <<"m1">>, <<"none">>), 1)
    /\ analysis \in {<<r1, r2>> : r1 \in ClockRows, r2 \in ClockRows}
    /\ email_replies = <<>>
    /\ cal_run = IdleCal
    /\ reply_run = IdleReply
    /\ router_run = IdleRouter

NextClock ==
    \/ update_existing_calendar_actions
    \/ process_calendar_actions

SpecClock == InitClock /\ [][NextClock]_vars

\* ------------------------------------------------------------------- reply
\* the analysis_data analyze_email builds from a response, for email 1
RouterData(resp, search_found) ==
    LET analysis_result == parse_llama_response(resp.out)
        search_results == IF analysis_result.search_required /\ search_found
                          THEN perform_web_search(analysis_result.search_query, "results")
                          ELSE <<>>
    IN  AnalysisData(1, analysis_result, FALSE, search_results,
                     analyze_search_results(search_results, analysis_result.context_needed, "summary"))

\* the records either insert path can have stored for the one ingested email
StoredRows ==
    {store_analysis_record(RouterData(resp, FALSE)) : resp \in {r \in LlamaResponses : r.outcome # "raised"}}
        \cup {service_analysis_record([email_id |-> 1, action_type |-> input.action_type, insights |-> input.insights]) :
                 input \in ServiceInputs}

InitReply ==
    /\ emails = MarkProcessed(store_emails_loop(<<>>, <<"m1">>, <<"none">>), 1)
    /\ analysis \in {<<row>> : row \in StoredRows}
    /\ email_replies = <<>>
    /\ cal_run = IdleCal
    /\ reply_run = IdleReply
    /\ router_run = IdleRouter

NextReply ==
    \/ process_reply
    \/ process_calendar_actions

SpecReply == InitReply /\ [][NextReply]_vars

TypeOK ==
    /\ Len(emails) <= MaxEmails
    /\ Len(analysis) <= MaxAnalysis
    /\ Len(email_replies) <= MaxReplies

\* ================================================================== claims
ReplyDone == reply_run.pc = "done"

Sends == CountOf(reply_run.log, "send")

Prompts == CountOf(reply_run.log, "prompt")

\* the Email and the AnalysisRecord exist and both lookups worked
Fetched ==
    /\ reply_run.email_id \in 1..Len(emails)
    /\ reply_run.analysis_id \in 1..Len(analysis)
    /\ reply_run.scenario.fault \notin {"fetch_email", "fetch_analysis"}

\* the AnalysisRecord of a calendar kind carries no action_data
LacksActionData(row) == row.action_type \in CalendarKinds /\ ~Truthy(row.action_data)

ReplyStatus == IF reply_run.reply_id = 0 THEN None ELSE email_replies[reply_run.reply_id].status

FailTwiceThenSucceed == <<FALSE, FALSE, TRUE>>

AlwaysFail == <<FALSE, FALSE, FALSE>>

AlwaysAccept == <<TRUE, TRUE, TRUE>>

C3_DeclineLeavesPending ==
    (ReplyDone /\ Fetched /\ reply_run.scenario.require_confirmation /\ ~reply_run.scenario.user_confirms
        /\ reply_run.scenario.fault = "none" /\ ~LacksActionData(analysis[reply_run.analysis_id]))
    => (Prompts = 1 /\ Sends = 0 /\ reply_run.result = "False" /\ ReplyStatus = "PENDING")

\* C4: within one process_reply call two send attempts never occur without a
\* wait of retry_delay between them.
C4_WaitBetweenSends ==
    ReplyDone =>
        \A i, j \in 1..Len(reply_run.log) :
            (i < j /\ reply_run.log[i] = "send" /\ reply_run.log[j] = "send")
            => \E k \in (i + 1)..(j - 1) : reply_run.log[k] = "sleep"

\* C5: with confirmation required, the user confirming and the mail
\* collaborator accepting, the message is sent exactly once and process_reply
\* returns True.
C5_ConfirmedSendsOnce ==
    (ReplyDone /\ Fetched /\ reply_run.scenario.require_confirmation /\ reply_run.scenario.user_confirms
        /\ reply_run.scenario.fault = "none" /\ reply_run.scenario.script = AlwaysAccept
        /\ ~LacksActionData(analysis[reply_run.analysis_id]))
    => (Sends = 1 /\ reply_run.result = "True")

\* C6: when the Email or the AnalysisRecord cannot be fetched, process_reply
\* returns False, inserts no ReplyRecord and makes no send call.
C6_MissingDataReturnsFalse ==
    /\ [](ReplyDone /\ ~Fetched => reply_run.result = "False" /\ reply_run.reply_id = 0 /\ Sends = 0)
    /\ [][(reply_run'.pc = "done" /\ ~Fetched') => email_replies' = email_replies]_vars

C6_Witness ==
    /\ ReplyDone /\ ~Fetched /\ reply_run.scenario.fault = "fetch_analysis"
    /\ reply_run.email_id \in 1..Len(emails) /\ reply_run.analysis_id \in 1..Len(analysis)
    /\ reply_run.result = "False" /\ email_replies = <<>>

RouterRows == {i \in 1..Len(analysis) : analysis[i].via = "analyze_email"}

\* C7: every AnalysisRecord persisted by analyze_email has calendar_status
\* non-null exactly when its action_type is SCHEDULE_MEETING or SET_REMINDER.
C7_CalendarStatusIffCalendarKind ==
    \A i \in RouterRows : (analysis[i].calendar_status # None) <=> (analysis[i].action_type \in CalendarKinds)

\* C8: every AnalysisRecord persisted by analyze_email has an action_type
\* among the five kinds (an absent or unrecognized section gives NO_ACTION).
C8_ActionTypeIsAKind ==
    \A i \in RouterRows : analysis[i].action_type \in ActionKinds

\* C9: for a SCHEDULE_MEETING or SET_REMINDER record without action_data,
\* process_calendar_actions never invokes event creation and process_reply
\* never invokes the mail collaborator's send.
C9_NoDispatchWithoutActionData ==
    /\ \A k \in 1..Len(cal_run) : LacksActionData(analysis[cal_run[k].id]) => ~cal_run[k].invoked
    /\ (ReplyDone /\ Fetched /\ LacksActionData(analysis[reply_run.analysis_id])) => Sends = 0

C9_Witness ==
    /\ \E k \in 1..Len(cal_run) : LacksActionData(analysis[cal_run[k].id]) /\ cal_run[k].skipped
    /\ ReplyDone /\ Fetched /\ LacksActionData(analysis[reply_run.analysis_id])
    /\ ~reply_run.scenario.require_confirmation /\ reply_run.scenario.script = AlwaysAccept
    /\ reply_run.scenario.fault = "none"

\* C10: for every PENDING record with action_data that process_calendar_actions
\* handles, the status written is COMPLETED (with the event-created message)
\* exactly when event creation succeeded, and FAILED with an error text when
\* event creation or a preparation step raised; nothing else is written.
C10_StatusFollowsEventCreation ==
    /\ \A k \in 1..Len(cal_run) :
          ~cal_run[k].skipped =>
             /\ cal_run[k].status \in {"COMPLETED", "FAILED"}
             /\ (cal_run[k].status = "COMPLETED") <=> cal_run[k].created
             /\ cal_run[k].status = "COMPLETED" => cal_run[k].message = "Event created successfully"
             /\ cal_run[k].status = "FAILED" =>
                   cal_run[k].message \in {"Failed to schedule event", "Error processing calendar action"}
             /\ cal_run[k].prep_raised => cal_run[k].status = "FAILED"
             /\ cal_run[k].stored =>
                   /\ analysis[cal_run[k].id].calendar_status = cal_run[k].status
                   /\ analysis[cal_run[k].id].calendar_message = cal_run[k].message
    /\ \A i \in 1..Len(analysis) : analysis[i].calendar_status \in {None, "PENDING", "COMPLETED", "FAILED"}

C10_Witness ==
    \E k1, k2 \in 1..Len(cal_run) :
        /\ cal_run[k1].status = "COMPLETED" /\ cal_run[k1].created /\ cal_run[k1].stored
        /\ cal_run[k2].status = "FAILED" /\ cal_run[k2].prep_raised /\ cal_run[k2].stored

Terminal(row) == row.calendar_status \in {"COMPLETED", "FAILED"}

\* C11: COMPLETED and FAILED are terminal: every record a run of
\* process_calendar_actions handles was PENDING when fetched, no step of the
\* dispatcher or of update_existing_calendar_actions changes a record that has
\* either value, and the only changes of calendar_status ever made are
\* PENDING to COMPLETED and PENDING to FAILED.
C11_TerminalStatuses ==
    /\ [](\A k \in 1..Len(cal_run) : cal_run[k].was = "PENDING")
    /\ [][\A i \in 1..Len(analysis) :
            /\ analysis'[i].calendar_status # analysis[i].calendar_status
                  => analysis[i].calendar_status = "PENDING" /\ Terminal(analysis'[i])
            /\ Terminal(analysis[i]) => analysis'[i] = analysis[i]]_vars

\* a record is terminal and the last dispatcher run, which handled another
\* record, left it out
C11_Witness ==
    \E i \in 1..Len(analysis) :
        /\ Terminal(analysis[i])
        /\ cal_run # <<>>
        /\ \A k \in 1..Len(cal_run) : cal_run[k].id # i /\ ~cal_run[k].skipped

\* the SET_REMINDER records with action_data naming a for_user that reach event creation
ReminderRows ==
    {i \in 1..Len(analysis) :
        /\ analysis[i].action_type = "SET_REMINDER"
        /\ Truthy(analysis[i].action_data)
        /\ Has(analysis[i].action_data.kv, "for_user")
        /\ ~PrepareRaises(analysis[i].action_data.kv)}

\* C12: for a SET_REMINDER record whose action_data has for_user = u, the
\* event description handed to event creation has participants == [u] and
\* duration_minutes == 30, whatever participants or duration it carried; an
\* event built from it has exactly that attendee and that duration.
C12_ReminderForUserThirtyMinutes ==
    /\ \A i \in ReminderRows :
          LET passed == PrepareEvent(analysis[i].action_type, analysis[i].action_data.kv)
          IN  /\ passed["participants"] = ListV(<<analysis[i].action_data.kv["for_user"].s>>)
              /\ passed["duration_minutes"] = IntV(reminder_duration)
    /\ \A k \in 1..Len(cal_run) :
          (cal_run[k].id \in ReminderRows /\ cal_run[k].invoked)
          => /\ cal_run[k].event.attendees = <<analysis[cal_run[k].id].action_data.kv["for_user"].s>>
             /\ cal_run[k].event.duration = 30

\* a reminder that carried two participants and another duration was dispatched
C12_Witness ==
    \E k \in 1..Len(cal_run) :
        /\ cal_run[k].id \in ReminderRows /\ cal_run[k].created
        /\ Has(analysis[cal_run[k].id].action_data.kv, "participants")
        /\ Len(analysis[cal_run[k].id].action_data.kv["participants"].l) = 2
        /\ Has(analysis[cal_run[k].id].action_data.kv, "duration_minutes")
        /\ cal_run[k].event.duration = 30

\* C13: after any sequence of ingestion batches the emails table holds at most
\* one row per provider message id.
C13_OneRowPerMessageId ==
    \A i, j \in 1..Len(emails) : emails[i].message_id = emails[j].message_id => i = j

RouterDone == router_run.pc = "done"

\* the last analyze_email call inserted an AnalysisRecord
RouterStored == RouterDone /\ router_run.analysis_id # 0

RouterRow == analysis[router_run.analysis_id]

Missing(section) == section \notin router_run.sections

KeysOf(text) == {text.lines[j].k : j \in 1..Len(text.lines)}

\* C15: SupabaseService.extract_action_data returns None when the marker is
\* absent or one of date, time, title, description is missing, every mapping
\* it returns has all four keys, and update_existing_calendar_actions changes
\* the action_data of a record only to the mapping extracted from its insights.
C15_ExtractionRequiresFourFields ==
    /\ [](\A i \in 1..Len(analysis) :
            LET text == analysis[i].insights
                extracted == SupabaseService_extract_action_data(text)
            IN  /\ (~text.marker \/ ~({"date", "time", "title", "description"} \subseteq KeysOf(text)))
                      => extracted = NoData
                /\ ~extracted.null => {"date", "time", "title", "description"} \subseteq DOMAIN extracted.kv)
    /\ [][\A i \in 1..Len(analysis) :
            analysis'[i].action_data # analysis[i].action_data
            => /\ ~SupabaseService_extract_action_data(analysis[i].insights).null
               /\ analysis'[i] = [analysis[i] EXCEPT
                                     !.action_data = SupabaseService_extract_action_data(analysis[i].insights)]]_vars

\* one record was rewritten from its insights while another, whose insights
\* lack the time, kept the action_data it had
C15_Witness ==
    \E i, j \in 1..Len(analysis) :
        /\ analysis[i].action_data = SupabaseService_extract_action_data(analysis[i].insights)
        /\ Truthy(analysis[i].action_data)
        /\ analysis[i].action_data.kv["date"] = StrV("today")
        /\ analysis[j].calendar_status = "PENDING"
        /\ SupabaseService_extract_action_data(analysis[j].insights) = NoData
        /\ Truthy(analysis[j].action_data)

\* the mapping the scenario expects for the six lines of MeetingLines
ScenarioExpected ==
    Data([k \in {"participants", "duration_minutes", "date", "time", "title", "description"} |->
            CASE k = "participants" -> ListV(<<"a@x.com", "b@x.com">>)
              [] k = "duration_minutes" -> StrV("60")
              [] k = "date" -> StrV(TODAY)
              [] k = "time" -> StrV(NOW)
              [] k = "title" -> StrV("Sync")
              [] OTHER -> StrV("Weekly sync")])

\* C16: for a model output with an ACTION_DATA section (and no other
\* occurrence of that text) the extractor returns one entry per "key: value"
\* line, with participants as the list of addresses, duration_minutes
\* reduced to its digits and date and time normalized; for the six lines of
\* the scenario it returns the scenario's mapping.
C16_SectionExtraction ==
    (RouterDone /\ router_run.outcome = "text" /\ ~Missing("ACTION_DATA")
        /\ ~router_run.structured_output.literal)
    => LET o == router_run.structured_output
           extracted == extract_action_data_section(o)
       IN  /\ ~extracted.null
           /\ DOMAIN extracted.kv = {o.action_data[j].k : j \in 1..Len(o.action_data)}
           /\ \A j \in 1..Len(o.action_data) :
                 extracted.kv[o.action_data[j].k] = TransformValue(o.action_data[j].k, o.action_data[j].v)
           /\ o.action_data = MeetingLines => extracted = ScenarioExpected

\* a date phrase that is not "today", not "tomorrow", not an ordinal-suffixed
\* date and not already YYYY-MM-DD
UnrecognizedDate(d) ==
    /\ Lower(d) \notin {"today", "tomorrow"}
    /\ StrptimeOrdinal(d) = None
    /\ d \notin IsoDates

\* C17: for a record whose date phrase is none of the recognized forms, the
\* dispatch path normalizes the date to the current date without raising:
\* event creation is reached with today's date.
C17_UnrecognizedDateFallsBack ==
    \A k \in 1..Len(cal_run) :
        LET row == analysis[cal_run[k].id]
        IN  (/\ ~cal_run[k].skipped
             /\ Truthy(row.action_data)
             /\ Has(row.action_data.kv, "date") /\ Has(row.action_data.kv, "time")
             /\ UnrecognizedDate(row.action_data.kv["date"].s))
            => (cal_run[k].invoked /\ cal_run[k].event.date = TODAY)

\* the value of the action-data line with the given key
LineValue(lines, key) ==
    IF \E j \in 1..Len(lines) : lines[j].k = key
    THEN lines[CHOOSE j \in 1..Len(lines) : lines[j].k = key].v
    ELSE None

\* C18: when analyze_email handles a FORWARD_TO_SLACK response and the
\* chat-notification collaborator accepts the message, the collaborator is
\* invoked with the importance given in the action data, and the persisted
\* record has slack_notification_sent = true and the returned message id.
C18_SlackForwardRecorded ==
    (RouterStored /\ router_run.action_type = "FORWARD_TO_SLACK" /\ router_run.slack_ok)
    => /\ router_run.slack_invoked
       /\ router_run.slack_importance = LineValue(router_run.structured_output.action_data, "importance")
       /\ RouterRow.slack_notification_sent
       /\ RouterRow.slack_message_id = SlackTs

\* the last analyze_email call tried to notify and the notification failed
SlackFailed == RouterDone /\ router_run.slack_attempted /\ ~router_run.slack_invoked

\* C19: when the chat-notification call fails for a FORWARD_TO_SLACK email
\* (and persistence works), analyze_email inserts exactly one AnalysisRecord
\* for that email, with slack_notification_sent = false, and marks the email
\* processed.
C19_SlackFailureStillPersists ==
    /\ []((SlackFailed /\ router_run.db = "none")
            => /\ RouterStored
               /\ RouterRow.email_id = router_run.email_id
               /\ RouterRow.action_type = "FORWARD_TO_SLACK"
               /\ ~RouterRow.slack_notification_sent
               /\ RouterRow.slack_message_id = None
               /\ emails[router_run.email_id].processed)
    /\ [][(SlackFailed' /\ router_run'.db = "none")
            => /\ Len(analysis') = Len(analysis) + 1
               /\ router_run'.analysis_id = Len(analysis')
               /\ \A i \in 1..Len(analysis) : analysis'[i] = analysis[i]]_vars

\* a notification the collaborator refused, recorded as not sent
C19_Witness ==
    /\ SlackFailed /\ ~router_run.slack_ok /\ router_run.db = "none"
    /\ RouterStored /\ ~RouterRow.slack_notification_sent
    /\ emails[router_run.email_id].processed

\* the last analyze_email call got an output whose SEARCH_REQUIRED section says required: true
SearchRequired ==
    /\ RouterDone /\ router_run.email_id # 0 /\ router_run.outcome # "raised"
    /\ ~Missing("SEARCH_REQUIRED") /\ router_run.structured_output.search_required

\* C20: when the SEARCH_REQUIRED section says required: true, analyze_email
\* calls the web search with the extracted query; with results it makes a
\* second model call and stores search_performed = true with the query, the
\* results and the answer; without results (also after a search exception) it
\* makes no second model call and still persists the record, with no search
\* results.
C20_SearchDegradesToEmptyResults ==
    SearchRequired
    => /\ router_run.search_called
       /\ router_run.search_query = router_run.structured_output.search_query
       /\ router_run.second_model_call <=> (router_run.search = "results")
       /\ router_run.db # "insert_rejected" => RouterStored
       /\ RouterStored =>
             IF router_run.search = "results"
             THEN /\ RouterRow.search_performed
                  /\ RouterRow.search_query = router_run.structured_output.search_query
                  /\ RouterRow.search_results # <<>>
                  /\ RouterRow.search_answer =
                        analyze_search_results(RouterRow.search_results,
                                               router_run.structured_output.context_needed, router_run.answer)
             ELSE /\ ~RouterRow.search_performed
                  /\ RouterRow.search_results = <<>>
                  /\ RouterRow.search_answer = ""

\* after a search that found results, a search that raised: the record is stored without results
C20_Witness ==
    /\ SearchRequired /\ router_run.search = "exception" /\ RouterStored
    /\ ~RouterRow.search_performed /\ ~router_run.second_model_call
    /\ \E i \in 1..Len(analysis) : analysis[i].search_performed /\ analysis[i].search_answer = "synthesized answer"

\* C21: in each batch loop a failure while handling one item is caught for that
\* item alone and every later item of the same batch is still processed. For
\* store_emails_in_supabase: whatever batch is ingested next into the current
\* table, every message whose own insert does not fail is in the table
\* afterwards.
C21_PerItemIsolation ==
    \A batch \in Batches : \A faults \in [1..Len(batch) -> IngestFaults] :
        \A i \in 1..Len(batch) :
            faults[i] # "insert_error"
            => \E j \in 1..Len(store_emails_loop(emails, batch, faults)) :
                    store_emails_loop(emails, batch, faults)[j].message_id = batch[i]

\* C22: process_reply never propagates an exception to its caller; for a
\* failure while fetching, preparing the reply context (including a record
\* whose action_data is null) or persisting, it returns False.
C22_NeverPropagates ==
    ReplyDone =>
        /\ reply_run.result \in {"True", "False"}
        /\ (\/ ~Fetched
            \/ reply_run.scenario.fault = "store"
            \/ LacksActionData(analysis[reply_run.analysis_id])) => reply_run.result = "False"

\* C23: in every execution of process_reply at most max_retries send calls are
\* made and no send call follows one that succeeded: when the k-th send is the
\* first the mail collaborator accepts, exactly k send calls are made, the send
\* is the last step of the call and the call returns True.
C23_AtMostThreeSendsStopAtSuccess ==
    ReplyDone =>
        /\ Sends <= max_retries
        /\ \A k \in 1..Sends :
              SendAccepted(reply_run.scenario.script, k)
              => /\ Sends = k
                 /\ reply_run.log[Len(reply_run.log)] = "send"
                 /\ reply_run.result = "True"

\* the second send is the first accepted one: two sends, True
C23_Witness ==
    /\ ReplyDone /\ reply_run.scenario.script = <<FALSE, TRUE, TRUE>>
    /\ reply_run.log = <<"send", "send">> /\ reply_run.result = "True" /\ ReplyStatus = "SENT"

\* C24: in every reachable state an Email whose processed flag is true has at
\* least one AnalysisRecord, and whenever a step sets the flag of an email the
\* same step has inserted an AnalysisRecord for that email.
C24_ProcessedHasAnalysis ==
    /\ [](\A i \in 1..Len(emails) :
            emails[i].processed => \E j \in 1..Len(analysis) : analysis[j].email_id = i)
    /\ [][\A i \in 1..Len(emails) :
            (emails'[i].processed /\ ~emails[i].processed)
            => \E j \in (Len(analysis) + 1)..Len(analysis') : analysis'[j].email_id = i]_vars

\* one email processed by the class-level store, the other analysed by
\* analyze_emails with the mark-processed write rejected
C24_Witness ==
    /\ Len(emails) = 2 /\ emails[1].processed /\ ~emails[2].processed
    /\ \E j \in 1..Len(analysis) : analysis[j].email_id = 1 /\ analysis[j].via = "service"
    /\ \E j \in 1..Len(analysis) : analysis[j].email_id = 2 /\ analysis[j].via = "analyze_email"

BatchDone == router_run.pc = "batch"

\* C25: when the insert of an AnalysisRecord succeeds and the mark-processed
\* write fails, the email stays unprocessed and a later analyze_emails run
\* analyses it again, so that two AnalysisRecords for one email exist; and
\* analyze_emails never analyses an email whose processed flag is true.
C25_ReanalysedOnlyWhileUnprocessed ==
    BatchDone =>
        \A k \in 1..Len(router_run.calls) :
            /\ ~router_run.calls[k].was_processed
            /\ (router_run.calls[k].analysis_id # 0 /\ router_run.calls[k].db = "update_rejected"
                    /\ \A n \in (k + 1)..Len(router_run.calls) :
                            router_run.calls[n].email_id # router_run.calls[k].email_id)
               => ~emails[router_run.calls[k].email_id].processed

\* C26: when the language-model call fails for an email (network or provider
\* error), analyze_email stores no AnalysisRecord for that email and its
\* processed flag stays false.
C26_ModelFailureStoresNothing ==
    (RouterDone /\ router_run.email_id # 0 /\ router_run.outcome = "request_error")
    => /\ ~RouterStored
       /\ \A j \in 1..Len(analysis) : analysis[j].email_id # router_run.email_id
       /\ ~emails[router_run.email_id].processed

\* the first maximal run of decimal digits of a duration phrase, "" when the
\* phrase has no digit
FirstDigitRun(s) ==
    CASE s = "60 (about an hour)" -> "60"
      [] s = "60" -> "60"
      [] s = "30" -> "30"
      [] s = "1 hour 30" -> "1"
      [] OTHER -> ""

\* C27: for every duration_minutes value the extractor's result is the first
\* run of decimal digits in the value, and "60" when the value has no digit:
\* every record stored by the class-level store from an action-data block with
\* a duration_minutes line carries that result.
C27_DurationIsFirstDigitRun ==
    \A i \in 1..Len(analysis) :
        LET row == analysis[i]
            value == LineValue(row.insights.lines, "duration_minutes")
        IN  (row.via = "service" /\ Truthy(row.action_data) /\ value # None)
            => /\ Has(row.action_data.kv, "duration_minutes")
               /\ row.action_data.kv["duration_minutes"] =
                     StrV(IF FirstDigitRun(value) = "" THEN "60" ELSE FirstDigitRun(value))

\* the hour the o'clock rule is said to give: the leading hour, plus 12 when
\* the phrase mentions night, evening or pm and the hour is not 12
OClockExpected(t) ==
    HourString(DigitsOf(t) + (IF MentionsNight(Lower(t)) /\ DigitsOf(t) # 12 THEN 12 ELSE 0))

\* C28: for every time phrase containing "o'clock" with leading hour h in
\* 1..12, both implementations of the rule (the class-level store and
\* schedule_event) return HH:00 with HH = h + 12 when the phrase mentions
\* night, evening or pm and h is not 12, and HH = h otherwise: checked for the
\* time phrase of every stored record.
C28_OClockRule ==
    \A i \in 1..Len(analysis) :
        LET t == LineValue(analysis[i].insights.lines, "time")
        IN  (t # None /\ ContainsOClock(Lower(t)))
            => /\ TransformValue("time", t) = StrV(OClockExpected(t))
               /\ ScheduleTime(t) = OClockExpected(t)
               /\ OClockExpected(t) \in ClockTimes

\* C29: when process_calendar_actions returns, every record it fetched as
\* PENDING has calendar_status COMPLETED or FAILED, so none of them is fetched
\* again by the next run.
C29_FetchedRecordsLeavePending ==
    \A k \in 1..Len(cal_run) :
        /\ Terminal(analysis[cal_run[k].id])
        /\ cal_run[k].id \notin FetchedIds(analysis, TRUE)

\* C30: every attendee address of an event description that
\* process_calendar_actions passes to event creation satisfies is_valid_email,
\* for SCHEDULE_MEETING records (participants as a list or as a single string)
\* and for SET_REMINDER records (for_user).
C30_AttendeesAreValid ==
    \A k \in 1..Len(cal_run) :
        cal_run[k].invoked
        => \A n \in 1..Len(cal_run[k].event.attendees) : is_valid_email(cal_run[k].event.attendees[n])

====
